---- MODULE Spec2Model ----
(***************************************************************************)
(* Mirror-symmetry detection of symmetry_freecad.py: the pairwise matcher  *)
(* (find_symmetric_face_pairs, check_faces_coincident) and the plane       *)
(* clustering (find_significant_mirror_plane, find_all_mirror_planes).     *)
(*                                                                         *)
(* Numbers.  Tolerances, face sizes and face positions are integers in    *)
(* the length unit of the shape; point coordinates are integers in 1/Scale *)
(* of that unit, so that every vertex and every edge sample of the faces   *)
(* below is an integer point.  A unit vector is a record [dir |-> v],      *)
(* v # Zero, standing for v/|v|.  Comparisons with the literals 0.98, 0.2  *)
(* and 0.6 are made exactly on rationals; the product 0.7 * n is the IEEE  *)
(* double product (see ExceedsFloat07).                                    *)
(***************************************************************************)
EXTENDS Integers, Sequences, FiniteSets, TLC

\* ------------------------------------------------------------- bounds
\* Faces of a shape, positions 0..MaxPos along the axis, tolerances 0..MaxTol
MaxFaces == 3
MaxPos == 2
MaxTol == 2
\* Length of a face-pair list given to the clustering, the greatest face index in
\* it, and the greatest face count
MaxPairs == 3
MaxIndex == 2
MaxTotalFaces == 11
\* Boundary edges (and vertices) of a face given to the coincidence test, kernel
\* calls that raise, and bounding-box diagonals 0..MaxDiag
MaxEdges == 18
MaxFaults == 1
MaxDiag == 2

\* ------------------------------------------------- program constants
samples_per_edge == 5
\* 0.7 of line 116, as MatchNum / MatchDen
MatchNum == 7
MatchDen == 10

\* 0.98 of lines 137 and 293, as SimilarNum / SimilarDen
SimilarNum == 49
SimilarDen == 50
\* 0.2 and 0.6 of lines 167 and 169
NoSymmetryBelow == [num |-> 1, den |-> 5]
PartialBelow == [num |-> 3, den |-> 5]

\* Point coordinates per length unit: halves of a width and fifths of an edge
Scale == 2 * samples_per_edge

\* A normal off the axis, of integral length: (50, 10, 1)/51 is at cosine
\* 50/51 > 0.98 of the x axis
OffAxis == <<50, 10, 1>>

\* ------------------------------------------------------------ vectors
Zero == <<0, 0, 0>>

Abs(x) == IF x < 0 THEN -x ELSE x

Max2(a, b) == IF a < b THEN b ELSE a

VAdd(a, b) == <<a[1] + b[1], a[2] + b[2], a[3] + b[3]>>

VSub(a, b) == <<a[1] - b[1], a[2] - b[2], a[3] - b[3]>>

VMul(a, k) == <<a[1] * k, a[2] * k, a[3] * k>>

VDivExact(a, k) == <<a[1] \div k, a[2] \div k, a[3] \div k>>

VDot(a, b) == a[1] * b[1] + a[2] * b[2] + a[3] * b[3]

\* Vector.Length < tolerance, both sides squared (a tolerance <= 0 is never exceeded)
LengthBelow(v, tolFine) == tolFine > 0 /\ VDot(v, v) < tolFine * tolFine

\* The largest r with r * r <= n
RECURSIVE ISqrtFrom(_, _)
ISqrtFrom(n, r) == IF (r + 1) * (r + 1) > n THEN r ELSE ISqrtFrom(n, r + 1)

ISqrt(n) == ISqrtFrom(n, 0)

\* Vector.normalize(): FreeCAD raises "Cannot normalize null vector" on a vector
\* shorter than epsilon; the integer vectors here are that short only when Zero.
NormalizeRaises(v) == v = Zero

Normalize(v) == [dir |-> v]

\* Unit vectors are added over this common denominator
NormDen == ISqrt(VDot(OffAxis, OffAxis))

RECURSIVE SumSeq(_)
SumSeq(s) == IF s = <<>> THEN 0 ELSE Head(s) + SumSeq(Tail(s))


\* ---------------------------------------------------- geometry kernel
(* The faces of the model: a rectangle w x h in the plane x = pos, centred *)
(* on the x axis, its two sides of length w cut into nw edges each and its *)
(* two sides of length h into nh edges each (the cross faces of a stepped  *)
(* prismatic bar).  Points are <<x, y, z>> in 1/Scale units.               *)
RectFace(pos, w, h, nw, nh) == [pos |-> pos, w |-> w, h |-> h, nw |-> nw, nh |-> nh]

\* The k-th boundary vertex of the rectangle, k = 0 .. 2*nw + 2*nh, counter-clockwise
\* from the corner (-w/2, -h/2)
BoundaryVertex(f, k) ==
    LET W == f.w * Scale
        H == f.h * Scale
        x == f.pos * Scale
        sw == W \div f.nw
        sh == H \div f.nh
    IN  IF k <= f.nw THEN <<x, k * sw - W \div 2, -(H \div 2)>>
        ELSE IF k <= f.nw + f.nh THEN <<x, W \div 2, (k - f.nw) * sh - H \div 2>>
        ELSE IF k <= 2 * f.nw + f.nh THEN <<x, W \div 2 - (k - f.nw - f.nh) * sw, H \div 2>>
        ELSE <<x, -(W \div 2), H \div 2 - (k - 2 * f.nw - f.nh) * sh>>

\* A face as the kernel presents it: its vertices, and its edges as straight
\* segments [p0, p1]; the face itself is the filled rectangle they bound.
Shape_Face(f) ==
    LET n == 2 * f.nw + 2 * f.nh
    IN  [Vertexes |-> [k \in 1..n |-> BoundaryVertex(f, k - 1)],
         Edges |-> [k \in 1..n |-> [p0 |-> BoundaryVertex(f, k - 1),
                                    p1 |-> BoundaryVertex(f, k)]],
         Area |-> f.w * f.h,
         CenterOfMass |-> <<f.pos * Scale, 0, 0>>,
         BoundBox |-> [lo |-> <<f.pos * Scale, -((f.w * Scale) \div 2), -((f.h * Scale) \div 2)>>,
                       hi |-> <<f.pos * Scale, (f.w * Scale) \div 2, (f.h * Scale) \div 2>>]]

\* Edge.Length, in 1/Scale units
EdgeLength(e) == Abs(e.p1[1] - e.p0[1]) + Abs(e.p1[2] - e.p0[2]) + Abs(e.p1[3] - e.p0[3])

\* BoundBox.DiagonalLength, squared
DiagonalLengthSq(bb) == VDot(VSub(bb.hi, bb.lo), VSub(bb.hi, bb.lo))

\* edge.valueAt(FirstParameter + (i/samples_per_edge) * (Last - First)): the point
\* of a segment, or a raise.  An edge whose answers are tabulated (pts) gives them.
ValueAt(e, i) ==
    IF "pts" \in DOMAIN e THEN e.pts[i]
    ELSE [ok |-> TRUE,
          point |-> VAdd(e.p0, VDivExact(VMul(VSub(e.p1, e.p0), i), samples_per_edge))]

\* face2.distToShape(Part.Vertex(point))[0], squared: the distance of a point to
\* the filled rectangle, or a raise.  A face whose answers are tabulated (dist)
\* gives them.
DistToShapeSq(face2, point) ==
    IF "dist" \in DOMAIN face2 THEN face2.dist[point]
    ELSE LET bb == face2.BoundBox
             gap(c) == Max2(0, Max2(bb.lo[c] - point[c], point[c] - bb.hi[c]))
         IN  [ok |-> TRUE, d2 |-> gap(1) * gap(1) + gap(2) * gap(2) + gap(3) * gap(3)]

\* abs(a - b) > tolerance for a = sqrt(aSq), b = sqrt(bSq), t = tolerance >= 0, all
\* in 1/Scale units: with aSq >= bSq, sqrt(aSq) > t + sqrt(bSq), squared twice
RootDiffExceeds(aSq, bSq, t) ==
    LET hi == Max2(aSq, bSq)
        lo == aSq + bSq - hi
        c == hi - lo - t * t
    IN  c > 0 /\ c * c > 4 * t * t * lo

\* ------------------------------------------------ check_faces_coincident
\* The largest power of two <= x, x >= 1
RECURSIVE Pow2Floor(_)
Pow2Floor(x) == IF x < 2 THEN 1 ELSE 2 * Pow2Floor(x \div 2)

(* match_count > 0.7 * n as Python evaluates it: the int against the double *)
(* product.  The double 0.7 is 0.7 - 1/(5 * 2^52), so the exact product is  *)
(* 7n/10 - n/(5 * 2^52), rounded to the nearest double (ties to even).  No  *)
(* integer lies between it and 7n/10 unless 7n/10 = 7k is itself an integer *)
(* (n = 10k); then the product rounds to 7k when 2k * 2^-52 is at most half *)
(* the spacing 2^(e-52) of the doubles below 7k, e = floor(log2(7k)) (a tie *)
(* rounds to 7k, whose mantissa is even), and to a double below 7k when     *)
(* 4k > 2^e: 0.7 * 90 = 62.99999999999999.                                  *)
Float07TimesIsBelow(n) ==
    n > 0 /\ n % MatchDen = 0
          /\ 4 * (n \div MatchDen) > Pow2Floor(MatchNum * (n \div MatchDen))

ExceedsFloat07(m, n) ==
    IF MatchDen * m # MatchNum * n THEN MatchDen * m > MatchNum * n
    ELSE Float07TimesIsBelow(n)

RECURSIVE EdgeSamples(_, _)
EdgeSamples(edge, i) ==
    IF i >= samples_per_edge THEN <<>>
    ELSE LET r == ValueAt(edge, i)
         IN  (IF r.ok THEN <<r.point>> ELSE <<>>) \o EdgeSamples(edge, i + 1)

RECURSIVE AllEdgeSamples(_)
AllEdgeSamples(edges) ==
    IF edges = <<>> THEN <<>>
    ELSE EdgeSamples(Head(edges), 1) \o AllEdgeSamples(Tail(edges))

\* lines 86-100
points_to_check(face1) == face1.Vertexes \o AllEdgeSamples(face1.Edges)

\* distance < tolerance, on the squared distance
DistanceBelow(d2, tolerance) ==
    tolerance > 0 /\ d2 < (tolerance * Scale) * (tolerance * Scale)

\* lines 106-113
match_count(points, face2, tolerance) ==
    Cardinality({k \in 1..Len(points) :
        LET r == DistToShapeSq(face2, points[k])
        IN  r.ok /\ DistanceBelow(r.d2, tolerance)})

DiagSq(face) ==
    IF "DiagonalLengthSq" \in DOMAIN face THEN face.DiagonalLengthSq
    ELSE DiagonalLengthSq(face.BoundBox)

BoundBoxesDiffer(face1, face2, tolerance) ==
    tolerance < 0 \/ RootDiffExceeds(DiagSq(face1), DiagSq(face2), tolerance * Scale)

check_faces_coincident(face1, face2, tolerance) ==
    IF BoundBoxesDiffer(face1, face2, tolerance) THEN FALSE
    ELSE LET pts == points_to_check(face1)
         IN  IF pts = <<>> THEN FALSE
             ELSE ExceedsFloat07(match_count(pts, face2, tolerance), Len(pts))

\* --------------------------------------------- find_symmetric_face_pairs
\* sum(edge.Length for edge in face.Edges), in 1/Scale units
Perimeter(face) == SumSeq([k \in 1..Len(face.Edges) |-> EdgeLength(face.Edges[k])])

\* lines 52-65: the matrix I - 2 n n^T with translation 2 n (midpoint . n), for
\* n = d/|d|, kept as integers over the common denominator d . d
MirrorTransform(d, midpoint) ==
    [den |-> VDot(d, d),
     A |-> [r \in 1..3 |-> [c \in 1..3 |->
              (IF r = c THEN VDot(d, d) ELSE 0) - 2 * d[r] * d[c]]],
     T |-> VMul(d, 2 * VDot(midpoint, d))]

TransformPoint(m, p) ==
    [r \in 1..3 |-> (VDot(m.A[r], p) + m.T[r]) \div m.den]

Min2(a, b) == IF a < b THEN a ELSE b

\* face.transformGeometry(matrix): a copy with every point mapped; a reflection
\* along an axis maps the bounding box to the box of its mapped corners
TransformGeometry(face, m) ==
    [BoundBox |->
        LET a == TransformPoint(m, face.BoundBox.lo)
            b == TransformPoint(m, face.BoundBox.hi)
        IN  [lo |-> [c \in 1..3 |-> Min2(a[c], b[c])],
             hi |-> [c \in 1..3 |-> Max2(a[c], b[c])]],
     Vertexes |-> [k \in 1..Len(face.Vertexes) |-> TransformPoint(m, face.Vertexes[k])],
     Edges |-> [k \in 1..Len(face.Edges) |->
                  [p0 |-> TransformPoint(m, face.Edges[k].p0),
                   p1 |-> TransformPoint(m, face.Edges[k].p1)]]]

AreasDiffer(face_a, face_b, tolerance) == Abs(face_a.Area - face_b.Area) > tolerance

PerimetersDiffer(face_a, face_b, tolerance) ==
    Abs(Perimeter(face_a) - Perimeter(face_b)) > tolerance * Scale

\* Were the test "normal.Length <= tolerance"
CentersWithin(face_a, face_b, tolerance) ==
    LET normal == VSub(face_b.CenterOfMass, face_a.CenterOfMass)
    IN  VDot(normal, normal) <= (tolerance * Scale) * (tolerance * Scale)

\* if normal.Length < tolerance: continue
CentersCoincide(face_a, face_b, tolerance) ==
    LengthBelow(VSub(face_b.CenterOfMass, face_a.CenterOfMass), tolerance * Scale)

Midpoint(face_a, face_b) == VDivExact(VAdd(face_a.CenterOfMass, face_b.CenterOfMass), 2)

\* The tolerances and the faces of the model
Tolerances == 0..MaxTol

\* 10 x 8; 8 x 10 with its long sides cut into 4 edges each; 9 x 9
FaceKinds == {<<10, 8, 1, 1>>, <<8, 10, 1, 4>>, <<9, 9, 1, 1>>}

Faces == {RectFace(pos, k[1], k[2], k[3], k[4]) : pos \in 0..MaxPos, k \in FaceKinds}

\* lines 25-71, the body of the loops for the faces face_a = faces[i] and
\* face_b = faces[j]: "skip" (a continue, or no coincidence), "raise" (normalize
\* on a null vector) or "append" with the midpoint and the normal
PairGeometry(fa, fb, tolerance) ==
    LET face_a == Shape_Face(fa)
        face_b == Shape_Face(fb)
        normal == VSub(face_b.CenterOfMass, face_a.CenterOfMass)
        midpoint == Midpoint(face_a, face_b)
    IN  IF AreasDiffer(face_a, face_b, tolerance) THEN [kind |-> "skip"]
        ELSE IF PerimetersDiffer(face_a, face_b, tolerance) THEN [kind |-> "skip"]
        ELSE IF CentersCoincide(face_a, face_b, tolerance) THEN [kind |-> "skip"]
        ELSE IF NormalizeRaises(normal) THEN [kind |-> "raise"]
        ELSE IF check_faces_coincident(
                    TransformGeometry(face_a, MirrorTransform(normal, midpoint)),
                    face_b, tolerance)
             THEN [kind |-> "append", midpoint |-> midpoint, normal |-> Normalize(normal)]
             ELSE [kind |-> "skip"]

\* PairGeometry of every two faces and tolerance of the model, tabulated once
\* (@@ makes the function an explicit table)
PairTable ==
    [x \in Faces \X Faces \X Tolerances |-> PairGeometry(x[1], x[2], x[3])] @@ <<>>

\* lines 22-72 for one (i, j); face_pairs.append((i, j, midpoint, normal))
PairBody(faces, i, j, tolerance) ==
    LET r == PairTable[<<faces[i + 1], faces[j + 1], tolerance>>]
    IN  IF r.kind = "append"
        THEN [kind |-> "append", entry |-> <<i, j, r.midpoint, r.normal>>]
        ELSE r

NullVectorError == [kind |-> "raise", error |-> "Cannot normalize null vector"]

Return(v) == [kind |-> "return", value |-> v]

\* for i in range(len(faces)): for j in range(i+1, len(faces)): ...
JStart(i) == i + 1

RECURSIVE ScanPairs(_, _, _, _, _)
ScanPairs(faces, tolerance, i, j, face_pairs) ==
    IF i >= Len(faces) THEN Return(face_pairs)
    ELSE IF j >= Len(faces) THEN ScanPairs(faces, tolerance, i + 1, JStart(i + 1), face_pairs)
    ELSE LET r == PairBody(faces, i, j, tolerance)
         IN  IF r.kind = "raise" THEN NullVectorError
             ELSE ScanPairs(faces, tolerance, i, j + 1,
                            IF r.kind = "append" THEN Append(face_pairs, r.entry)
                            ELSE face_pairs)

find_symmetric_face_pairs(shape, tolerance) == ScanPairs(shape, tolerance, 0, JStart(0), <<>>)

\* ------------------------------------------------------ plane clustering
\* |v| for a vector of integral length (every normal of the model has one)
ILen(v) == ISqrt(VDot(v, v))

\* abs(normal.dot(group_normal)) > 0.98, for unit vectors a.dir/|a.dir|, b.dir/|b.dir|
SimilarNormals(a, b) ==
    SimilarDen * Abs(VDot(a.dir, b.dir)) > SimilarNum * ILen(a.dir) * ILen(b.dir)

\* Were the loop over the groups to run on after a match: the last similar group
RECURSIVE LastSimilarGroup(_, _, _)
LastSimilarGroup(plane_groups, normal, k) ==
    IF k > Len(plane_groups) THEN 0
    ELSE LET later == LastSimilarGroup(plane_groups, normal, k + 1)
         IN  IF later # 0 THEN later
             ELSE IF SimilarNormals(normal, plane_groups[k][1][4]) THEN k ELSE 0

\* The index of the first group whose first pair's normal is similar, from k on; 0: none
RECURSIVE FirstSimilarGroup(_, _, _)
FirstSimilarGroup(plane_groups, normal, k) ==
    IF k > Len(plane_groups) THEN 0
    ELSE IF SimilarNormals(normal, plane_groups[k][1][4]) THEN k
    ELSE FirstSimilarGroup(plane_groups, normal, k + 1)

\* One turn of "for pair in face_pairs"
AddPair(plane_groups, pair) ==
    LET g == FirstSimilarGroup(plane_groups, pair[4], 1)
    IN  IF g = 0 THEN Append(plane_groups, <<pair>>)
        ELSE [plane_groups EXCEPT ![g] = Append(@, pair)]

RECURSIVE GroupLoop(_, _)
GroupLoop(face_pairs, plane_groups) ==
    IF face_pairs = <<>> THEN plane_groups
    ELSE GroupLoop(Tail(face_pairs), AddPair(plane_groups, Head(face_pairs)))

\* lines 283-299
GroupPairsAll(face_pairs) == GroupLoop(face_pairs, <<>>)

\* lines 127-143
GroupPairsSignificant(face_pairs) == GroupLoop(face_pairs, <<>>)

\* A unit vector's coordinates over the common denominator NormDen
UnitCoords(u) == VDivExact(VMul(u.dir, NormDen), ILen(u.dir))

RECURSIVE SumNormals(_)
SumNormals(group) ==
    IF group = <<>> THEN Zero ELSE VAdd(UnitCoords(Head(group)[4]), SumNormals(Tail(group)))

RECURSIVE SumPoints(_)
SumPoints(group) ==
    IF group = <<>> THEN Zero ELSE VAdd(Head(group)[3], SumPoints(Tail(group)))

\* Were only the first index of each pair added to unique_faces
FirstFacesOnly(group) == {group[k][1] : k \in 1..Len(group)}

\* unique_faces of lines 160-163 and 320-323
UniqueFaces(group) == {group[k][1] : k \in 1..Len(group)} \cup {group[k][2] : k \in 1..Len(group)}

\* (avg_point, avg_normal) of a group whose normals do not cancel; avg_point is the
\* sum of the midpoints times 1.0/len(group), kept as sum and divisor
AveragePlane(group) ==
    [point |-> [sum |-> SumPoints(group), count |-> Len(group)],
     normal |-> Normalize(SumNormals(group))]

\* lines 308-333: the record of one group
PlaneRecord(group, total_faces) ==
    [plane |-> AveragePlane(group),
     coverage |-> [num |-> Cardinality(UniqueFaces(group)), den |-> total_faces],
     pairs |-> group,
     face_count |-> Cardinality(UniqueFaces(group))]

ZeroDivisionError == [kind |-> "raise", error |-> "division by zero"]

\* a < b for two fractions of positive denominator
FracLess(a, b) == a.num * b.den < b.num * a.den

\* list.sort(key=coverage, reverse=True): stable, so a record goes behind every
\* record whose coverage is not smaller
RECURSIVE InsertByCoverage(_, _)
InsertByCoverage(sorted, r) ==
    IF sorted = <<>> THEN <<r>>
    ELSE IF FracLess(Head(sorted).coverage, r.coverage) THEN <<r>> \o sorted
    ELSE <<Head(sorted)>> \o InsertByCoverage(Tail(sorted), r)

RECURSIVE SortByCoverage(_, _)
SortByCoverage(mirror_planes, sorted) ==
    IF mirror_planes = <<>> THEN sorted
    ELSE SortByCoverage(Tail(mirror_planes), InsertByCoverage(sorted, Head(mirror_planes)))

\* Only consider groups with at least 2 face pairs
MinGroupPairs == 2

\* lines 301-333: "for group in plane_groups", from group k on
RECURSIVE PlanesLoop(_, _, _, _)
PlanesLoop(plane_groups, total_faces, k, mirror_planes) ==
    IF k > Len(plane_groups) THEN Return(mirror_planes)
    ELSE IF Len(plane_groups[k]) < MinGroupPairs
         THEN PlanesLoop(plane_groups, total_faces, k + 1, mirror_planes)
    ELSE IF NormalizeRaises(SumNormals(plane_groups[k])) THEN NullVectorError
    ELSE IF total_faces = 0 THEN ZeroDivisionError
    ELSE PlanesLoop(plane_groups, total_faces, k + 1,
                    Append(mirror_planes, PlaneRecord(plane_groups[k], total_faces)))

\* Were the check "if not mirror_planes" left out
AllPlanesUnchecked(face_pairs, total_faces) ==
    IF face_pairs = <<>> THEN Return(<<<<>>, "No symmetrical faces found">>)
    ELSE LET r == PlanesLoop(GroupPairsAll(face_pairs), total_faces, 1, <<>>)
         IN  IF r.kind = "raise" THEN r
             ELSE Return(<<SortByCoverage(r.value, <<>>), "Multiple symmetry planes detected">>)

find_all_mirror_planes(face_pairs, total_faces) ==
    IF face_pairs = <<>> THEN Return(<<<<>>, "No symmetrical faces found">>)
    ELSE LET r == PlanesLoop(GroupPairsAll(face_pairs), total_faces, 1, <<>>)
         IN  IF r.kind = "raise" THEN r
             ELSE IF r.value = <<>>
                  THEN Return(<<<<>>, "No significant symmetry detected">>)
                  ELSE Return(<<SortByCoverage(r.value, <<>>),
                                "Multiple symmetry planes detected">>)

\* max(plane_groups, key=len): the first group of the greatest length
LargestGroup(plane_groups) ==
    LET best == CHOOSE k \in 1..Len(plane_groups) :
                    /\ \A m \in 1..Len(plane_groups) : Len(plane_groups[m]) <= Len(plane_groups[k])
                    /\ \A m \in 1..(k - 1) : Len(plane_groups[m]) < Len(plane_groups[k])
    IN  plane_groups[best]

NoPlane == [none |-> TRUE]

find_significant_mirror_plane(face_pairs, total_faces) ==
    IF face_pairs = <<>> THEN Return(<<NoPlane, "No symmetrical faces found">>)
    ELSE LET largest_group == LargestGroup(GroupPairsSignificant(face_pairs))
             coverage == [num |-> Cardinality(UniqueFaces(largest_group)), den |-> total_faces]
         IN  IF NormalizeRaises(SumNormals(largest_group)) THEN NullVectorError
             ELSE IF total_faces = 0 THEN ZeroDivisionError
             ELSE IF FracLess(coverage, NoSymmetryBelow)
                  THEN Return(<<NoPlane, "No significant symmetry detected">>)
             ELSE IF FracLess(coverage, PartialBelow)
                  THEN Return(<<AveragePlane(largest_group), "Partial symmetry detected">>)
             ELSE Return(<<AveragePlane(largest_group), "Full symmetry detected">>)

\* ------------------------------------------------------------ the state
VARIABLES
    pc,             \* "shape", "matched", "pairs", "planes", "significant", "faces", "checked"
    the_shape,      \* the face list of the shape
    the_tolerance,
    matched,        \* what find_symmetric_face_pairs(shape, tolerance) did
    prev,           \* the earlier run, once the faces are reordered or the tolerance raised
    the_pairs,      \* the list given to the clustering
    the_total,
    the_groups,     \* plane_groups after the grouping loop
    planes,         \* what find_all_mirror_planes did
    significant,    \* what find_significant_mirror_plane did
    the_face1,      \* the faces given to check_faces_coincident
    the_face2,
    coincident      \* what check_faces_coincident did

vars == <<pc, the_shape, the_tolerance, matched, prev, the_pairs, the_total, the_groups,
          planes, significant, the_face1, the_face2, coincident>>

None == [kind |-> "none"]

\* ----------------------------------------------------------- the inputs
ShapesUpTo(n) == UNION {[1..m -> Faces] : m \in 0..n}

\* The unit normals of the face-pair lists: along the axis both ways, and two
\* directions each similar to the axis and not to each other
Normals == {[dir |-> <<1, 0, 0>>], [dir |-> <<-1, 0, 0>>],
            [dir |-> OffAxis], [dir |-> <<OffAxis[1], -OffAxis[2], -OffAxis[3]>>]}

IndexPairs == {ij \in (0..MaxIndex) \X (0..MaxIndex) : ij[1] < ij[2]}

LexLess(a, b) == a[1] < b[1] \/ (a[1] = b[1] /\ a[2] < b[2])

\* The lists of up to MaxPairs face pairs, in the order of the scan, each pair
\* with a normal of Normals and a midpoint on a plane through the origin
PairLists ==
    UNION {{l \in [1..m -> IndexPairs \X Normals] :
               \A k \in 1..(m - 1) : LexLess(l[k][1], l[k + 1][1])} : m \in 0..MaxPairs}

AsFacePairs(l) == [k \in 1..Len(l) |-> <<l[k][1][1], l[k][1][2], Zero, l[k][2]>>]

\* No face count is below the indices of the list
LeastTotal(l) ==
    IF l = <<>> THEN 0
    ELSE 1 + CHOOSE j \in 0..MaxIndex : /\ \E k \in 1..Len(l) : l[k][1][2] = j
                                        /\ \A k \in 1..Len(l) : l[k][1][2] <= j

\* The face counts tried with a list: the least one, and those at which a
\* coverage meets 0.2 or 0.6 or falls below
TotalFaces(l) == {n \in {LeastTotal(l), 5, 6, 10, MaxTotalFaces} : n >= LeastTotal(l)}

\* A face bounded by n edges and n vertices whose kernel answers are tabulated:
\* the points are 1..5n, the first `fails` edge evaluations raise
TabulatedFace1(n, fails, diag) ==
    [DiagonalLengthSq |-> (diag * Scale) * (diag * Scale),
     Vertexes |-> [k \in 1..n |-> k],
     Edges |-> [e \in 1..n |-> [pts |-> [i \in 1..(samples_per_edge - 1) |->
                  IF (samples_per_edge - 1) * (e - 1) + i <= fails THEN [ok |-> FALSE]
                  ELSE [ok |-> TRUE, point |-> n + (samples_per_edge - 1) * (e - 1) + i]]]]]

\* The face the points are measured against: of the points got, in order, `near` are on
\* the face, the next `raising` make distToShape raise, the rest are at exactly
\* the tolerance
TabulatedFace2(n, fails, near, raising, diag, tol) ==
    [DiagonalLengthSq |-> (diag * Scale) * (diag * Scale),
     dist |-> [p \in 1..(samples_per_edge * n) |->
                 LET k == IF p <= n THEN p ELSE p - fails
                 IN  IF k <= near THEN [ok |-> TRUE, d2 |-> 0]
                     ELSE IF k <= near + raising THEN [ok |-> FALSE]
                     ELSE [ok |-> TRUE, d2 |-> (tol * Scale) * (tol * Scale)]]]

\* ------------------------------------------------------------- Init
InitShape ==
    /\ pc = "shape"
    /\ the_shape \in ShapesUpTo(MaxFaces)
    /\ the_tolerance \in Tolerances
    /\ matched = None /\ prev = None
    /\ the_pairs = <<>> /\ the_total = 0 /\ the_groups = <<>>
    /\ planes = None /\ significant = None
    /\ the_face1 = None /\ the_face2 = None /\ coincident = None

InitPairs ==
    /\ pc = "pairs"
    /\ \E l \in PairLists : /\ the_pairs = AsFacePairs(l)
                            /\ the_total \in TotalFaces(l)
    /\ the_tolerance = 0
    /\ the_shape = <<>> /\ matched = None /\ prev = None
    /\ the_groups = <<>> /\ planes = None /\ significant = None
    /\ the_face1 = None /\ the_face2 = None /\ coincident = None

InitFaces ==
    /\ pc = "faces"
    /\ the_tolerance \in Tolerances
    /\ \E n \in 0..MaxEdges, fails \in 0..MaxFaults, diag \in 0..MaxDiag :
         /\ fails <= (samples_per_edge - 1) * n
         /\ the_face1 = TabulatedFace1(n, fails, diag)
         /\ \E near \in 0..(samples_per_edge * n - fails), raising \in 0..MaxFaults :
              /\ near + raising <= samples_per_edge * n - fails
              /\ the_face2 = TabulatedFace2(n, fails, near, raising, 0, the_tolerance)
    /\ coincident = None
    /\ the_shape = <<>> /\ matched = None /\ prev = None
    /\ the_pairs = <<>> /\ the_total = 0 /\ the_groups = <<>>
    /\ planes = None /\ significant = None

\* ---------------------------------------------------------- the actions
\* face_pairs = find_symmetric_face_pairs(shape, tolerance)
CallMatcher ==
    /\ pc = "shape"
    /\ matched' = find_symmetric_face_pairs(the_shape, the_tolerance)
    /\ pc' = "matched"
    /\ UNCHANGED <<the_shape, the_tolerance, prev, the_pairs, the_total, the_groups,
                   planes, significant, the_face1, the_face2, coincident>>

FaceOrders(n) == {p \in [1..n -> 1..n] : \A a, b \in 1..n : p[a] = p[b] => a = b}

\* The same shape with its face list in another order, matched again
Reorder ==
    /\ pc = "matched" /\ prev = None
    /\ \E p \in FaceOrders(Len(the_shape)) :
         /\ prev' = [kind |-> "reorder", shape |-> the_shape, tolerance |-> the_tolerance,
                     perm |-> p, matched |-> matched]
         /\ the_shape' = [k \in 1..Len(the_shape) |-> the_shape[p[k]]]
    /\ matched' = None
    /\ pc' = "shape"
    /\ UNCHANGED <<the_tolerance, the_pairs, the_total, the_groups, planes, significant,
                   the_face1, the_face2, coincident>>

\* The same shape matched again with a tolerance at least as large
Retolerance ==
    /\ pc = "matched" /\ prev = None
    /\ \E t \in Tolerances :
         /\ t >= the_tolerance
         /\ the_tolerance' = t
    /\ prev' = [kind |-> "retolerance", shape |-> the_shape, tolerance |-> the_tolerance,
                perm |-> [k \in 1..Len(the_shape) |-> k], matched |-> matched]
    /\ matched' = None
    /\ pc' = "shape"
    /\ UNCHANGED <<the_shape, the_pairs, the_total, the_groups, planes, significant,
                   the_face1, the_face2, coincident>>

\* main: the pairs found and len(shape.Faces) go to the clustering
PassPairs ==
    /\ pc = "matched" /\ matched.kind = "return"
    /\ the_pairs' = matched.value
    /\ the_total' = Len(the_shape)
    /\ pc' = "pairs"
    /\ UNCHANGED <<the_shape, the_tolerance, matched, prev, the_groups, planes, significant,
                   the_face1, the_face2, coincident>>

\* mirror_planes, symmetry_status = find_all_mirror_planes(face_pairs, total_faces)
CallAllPlanes ==
    /\ pc = "pairs"
    /\ the_groups' = GroupPairsAll(the_pairs)
    /\ planes' = find_all_mirror_planes(the_pairs, the_total)
    /\ pc' = "planes"
    /\ UNCHANGED <<the_shape, the_tolerance, matched, prev, the_pairs, the_total, significant,
                   the_face1, the_face2, coincident>>

\* mirror_plane, symmetry_status = find_significant_mirror_plane(face_pairs, total_faces)
CallSignificant ==
    /\ pc = "pairs"
    /\ the_groups' = GroupPairsSignificant(the_pairs)
    /\ significant' = find_significant_mirror_plane(the_pairs, the_total)
    /\ pc' = "significant"
    /\ UNCHANGED <<the_shape, the_tolerance, matched, prev, the_pairs, the_total, planes,
                   the_face1, the_face2, coincident>>

\* check_faces_coincident(face1, face2, tolerance)
CallCoincident ==
    /\ pc = "faces"
    /\ coincident' = Return(check_faces_coincident(the_face1, the_face2, the_tolerance))
    /\ pc' = "checked"
    /\ UNCHANGED <<the_shape, the_tolerance, matched, prev, the_pairs, the_total, the_groups,
                   planes, significant, the_face1, the_face2>>

\* ------------------------------------------------- the specifications
\* main: the matcher, then the clustering of what it found, by find_all_mirror_planes
\* (lines 441-445) or, as the earlier main did (lines 250-254), by
\* find_significant_mirror_plane
Next == CallMatcher \/ PassPairs \/ CallAllPlanes \/ CallSignificant

Spec == InitShape /\ [][Next]_vars

NextReorder == CallMatcher \/ Reorder

SpecReorder == InitShape /\ [][NextReorder]_vars

NextRetolerance == CallMatcher \/ Retolerance

SpecRetolerance == InitShape /\ [][NextRetolerance]_vars

\* The clustering of any list of face pairs
NextPlanes == CallAllPlanes \/ CallSignificant

SpecPlanes == InitPairs /\ [][NextPlanes]_vars

\* The coincidence test on any kernel answers
SpecCoincident == InitFaces /\ [][CallCoincident]_vars

\* ------------------------------------------------- the plane clustering
\* The places <<g, m>> of the groups after the grouping loop
GroupSlots == {gm \in (1..Len(the_pairs)) \X (1..Len(the_pairs)) :
                  gm[1] <= Len(the_groups) /\ gm[2] <= Len(the_groups[gm[1]])}

\* Where a pair stands in the list given
PlaceOf(pair) == CHOOSE k \in 1..Len(the_pairs) : the_pairs[k] = pair

Grouped == pc \in {"planes", "significant"}

\* C3: after the grouping loop of either function, every pair of the list is in
\* exactly one group and the groups hold nothing else, no group is empty, a
\* group keeps its pairs in the order of the list, every member's normal is
\* similar (|dot| > 0.98) to the normal of its group's first pair, and to the
\* first normal of no group created earlier
C3_GroupsAreFirstFit ==
    Grouped =>
        /\ \A k \in 1..Len(the_pairs) :
               Cardinality({gm \in GroupSlots : the_groups[gm[1]][gm[2]] = the_pairs[k]}) = 1
        /\ \A gm \in GroupSlots : \E k \in 1..Len(the_pairs) : the_groups[gm[1]][gm[2]] = the_pairs[k]
        /\ \A g \in 1..Len(the_groups) : Len(the_groups[g]) >= 1
        /\ \A gm \in GroupSlots :
               gm[2] > 1 => PlaceOf(the_groups[gm[1]][gm[2] - 1]) < PlaceOf(the_groups[gm[1]][gm[2]])
        /\ \A gm \in GroupSlots :
               /\ SimilarNormals(the_groups[gm[1]][gm[2]][4], the_groups[gm[1]][1][4])
               /\ \A h \in 1..(gm[1] - 1) :
                      ~SimilarNormals(the_groups[gm[1]][gm[2]][4], the_groups[h][1][4])

\* A pair joined a group although the first normal of a later group is similar to
\* its own too
C3_JoinedTheEarlier ==
    /\ Grouped
    /\ \E gm \in GroupSlots : \E h \in (gm[1] + 1)..Len(the_groups) :
           /\ gm[2] > 1
           /\ SimilarNormals(the_groups[gm[1]][gm[2]][4], the_groups[h][1][4])
           /\ PlaceOf(the_groups[h][1]) < PlaceOf(the_groups[gm[1]][gm[2]])

\* The groups a plane record is due to
LargeGroups == {g \in 1..Len(the_groups) : Len(the_groups[g]) >= 2}

\* The records of the list find_all_mirror_planes returned
Records == planes.value[1]

\* C4: for a list that is not empty, find_all_mirror_planes returns a list with
\* one record for each group of at least 2 pairs and none for a smaller group,
\* each record with the pairs of its group, and no record of smaller coverage
\* ahead of one of greater coverage
C4_OneRecordPerLargeGroup ==
    (pc = "planes" /\ the_pairs # <<>>) =>
        /\ planes.kind = "return"
        /\ \A g \in LargeGroups :
               Cardinality({k \in 1..Len(Records) : Records[k].pairs = the_groups[g]}) = 1
        /\ \A k \in 1..Len(Records) : \E g \in LargeGroups : Records[k].pairs = the_groups[g]
        /\ \A k \in 1..(Len(Records) - 1) :
               Records[k].coverage.num * Records[k + 1].coverage.den
                   >= Records[k + 1].coverage.num * Records[k].coverage.den

\* The group find_significant_mirror_plane takes: the earliest of the longest
TakenGroup ==
    the_groups[CHOOSE g \in 1..Len(the_groups) :
                   /\ \A h \in 1..Len(the_groups) : Len(the_groups[h]) <= Len(the_groups[g])
                   /\ \A h \in 1..(g - 1) : Len(the_groups[h]) # Len(the_groups[g])]

\* The distinct face indices of a list of pairs
FaceIndices(pairs) == {x \in 0..(2 * MaxIndex) : \E k \in 1..Len(pairs) : x \in {pairs[k][1], pairs[k][2]}}

\* C5: for a list that is not empty and N faces, find_significant_mirror_plane
\* returns, with coverage the number of distinct face indices of the earliest
\* longest group over N: no plane and "No significant symmetry detected" when
\* coverage < 0.2, a plane and "Partial symmetry detected" when
\* 0.2 <= coverage < 0.6, a plane and "Full symmetry detected" when coverage >= 0.6
C5_ThresholdsOfTheLargestGroup ==
    (pc = "significant" /\ the_pairs # <<>>) =>
        LET count == Cardinality(FaceIndices(TakenGroup))
        IN  /\ significant.kind = "return"
            /\ 5 * count < the_total =>
                   significant.value = <<NoPlane, "No significant symmetry detected">>
            /\ (5 * count >= the_total /\ 5 * count < 3 * the_total) =>
                   /\ significant.value[1] # NoPlane
                   /\ significant.value[2] = "Partial symmetry detected"
            /\ 5 * count >= 3 * the_total =>
                   /\ significant.value[1] # NoPlane
                   /\ significant.value[2] = "Full symmetry detected"

\* A normal v/|v| has length 1 unless v is the null vector
UnitLength(normal) == normal.dir # Zero

\* C7: whatever the list of pairs, antiparallel normals in one group included,
\* each function reports the plane of the group it is due for, with a normal of
\* length 1
C7_ReportedNormalIsUnit ==
    /\ (pc = "planes" /\ the_pairs # <<>>) =>
           /\ planes.kind = "return"
           /\ \A k \in 1..Len(Records) : UnitLength(Records[k].plane.normal)
    /\ (pc = "significant" /\ the_pairs # <<>> /\ 5 * Cardinality(FaceIndices(TakenGroup)) >= the_total) =>
           /\ significant.kind = "return"
           /\ UnitLength(significant.value[1].normal)

\* C10: an empty list gives ([], "No symmetrical faces found") and
\* (None, "No symmetrical faces found") whatever the face count; a list with no
\* group of 2 or more pairs gives ([], "No significant symmetry detected"); and
\* the status of a returned list is "Multiple symmetry planes detected" exactly
\* when the list is not empty
C10_NoSymmetryIsAResult ==
    /\ (pc = "planes" /\ the_pairs = <<>>) =>
           planes = [kind |-> "return", value |-> <<<<>>, "No symmetrical faces found">>]
    /\ (pc = "significant" /\ the_pairs = <<>>) =>
           significant = [kind |-> "return", value |-> <<[none |-> TRUE], "No symmetrical faces found">>]
    /\ (pc = "planes" /\ the_pairs # <<>> /\ LargeGroups = {}) =>
           planes = [kind |-> "return", value |-> <<<<>>, "No significant symmetry detected">>]
    /\ (pc = "planes" /\ planes.kind = "return") =>
           (planes.value[2] = "Multiple symmetry planes detected" <=> Len(planes.value[1]) > 0)

\* A list of several pairs, each alone in its group, went through find_all_mirror_planes
C10_OnlySmallGroups ==
    /\ pc = "planes" /\ Len(the_pairs) >= 2 /\ LargeGroups = {}
    /\ planes.kind = "return" /\ planes.value[1] = <<>>

\* ------------------------------------------------------------ the matcher
\* Face k (from 0) of the shape, as the kernel gives it
FaceAt(k) == Shape_Face(the_shape[k + 1])

\* The four conditions of an entry (i, j), in the order the matcher tests them
Qualifies(i, j) ==
    /\ ~AreasDiffer(FaceAt(i), FaceAt(j), the_tolerance)
    /\ ~PerimetersDiffer(FaceAt(i), FaceAt(j), the_tolerance)
    /\ ~CentersCoincide(FaceAt(i), FaceAt(j), the_tolerance)
    /\ check_faces_coincident(
           TransformGeometry(FaceAt(i),
               MirrorTransform(VSub(FaceAt(j).CenterOfMass, FaceAt(i).CenterOfMass),
                               Midpoint(FaceAt(i), FaceAt(j)))),
           FaceAt(j), the_tolerance)

\* C1: for every shape and tolerance find_symmetric_face_pairs returns a list
\* with exactly one entry (i, j, ...) for each i < j whose faces pass the area
\* filter, the perimeter filter, the centre distance and the coincidence of the
\* mirror image, and no other entry
C1_ExactlyTheQualifyingPairs ==
    pc = "matched" =>
        /\ matched.kind = "return"
        /\ \A k \in 1..Len(matched.value) :
               /\ matched.value[k][1] \in 0..(Len(the_shape) - 1)
               /\ matched.value[k][2] \in 0..(Len(the_shape) - 1)
        /\ \A i, j \in 0..(Len(the_shape) - 1) :
               Cardinality({k \in 1..Len(matched.value) :
                                matched.value[k][1] = i /\ matched.value[k][2] = j})
                   = IF i < j /\ Qualifies(i, j) THEN 1 ELSE 0

\* C6: with the pairs the matcher found and the face count of the shape, every
\* record find_all_mirror_planes reports has 0 < coverage <= 1,
\* coverage = face_count / total_faces, and face_count the number of distinct
\* face indices of its pairs, between 2 and twice the number of its pairs
C6_CoverageOfReportedPlanes ==
    (pc = "planes" /\ planes.kind = "return") =>
        \A k \in 1..Len(Records) :
            LET r == Records[k]
            IN  /\ 0 < r.coverage.num /\ r.coverage.num <= r.coverage.den
                /\ r.coverage.num = r.face_count /\ r.coverage.den = Len(the_shape)
                /\ r.face_count = Cardinality(FaceIndices(r.pairs))
                /\ 2 <= r.face_count /\ r.face_count <= 2 * Len(r.pairs)

\* A plane was reported for pairs the matcher found, with fewer faces than
\* twice its pairs
C6_PlaneReported ==
    /\ pc = "planes" /\ planes.kind = "return" /\ Len(Records) >= 1
    /\ Len(the_shape) >= 3 /\ matched.value = the_pairs
    /\ Records[1].face_count < 2 * Len(Records[1].pairs)

\* The faces of the entries of a result, as sets of two places of the face list
\* the first run was given; place[k] is where face k - 1 of the run stood there
FacePairsOf(result, place) ==
    {{place[result.value[k][1] + 1], place[result.value[k][2] + 1]} : k \in 1..Len(result.value)}

\* C8: whatever the order of the face list, find_symmetric_face_pairs reports
\* the same pairs of faces
C8_SamePairsInAnyOrder ==
    (pc = "matched" /\ prev.kind = "reorder" /\ prev.matched.kind = "return"
                    /\ matched.kind = "return") =>
        FacePairsOf(matched, prev.perm) = FacePairsOf(prev.matched, [k \in 1..Len(the_shape) |-> k])

Rematched == pc = "matched" /\ prev.kind = "retolerance"

\* C9 as stated: with a tolerance at least as large the matcher returns at least
\* as many pairs
C9_CountNeverDrops ==
    (Rematched /\ prev.matched.kind = "return" /\ matched.kind = "return") =>
        Len(matched.value) >= Len(prev.matched.value)

\* The square of the distance of the centres of the faces of an entry
CentreDistSq(e) ==
    LET d == VSub(FaceAt(e[2]).CenterOfMass, FaceAt(e[1]).CenterOfMass) IN VDot(d, d)

\* C9 as amended: when the matcher returns with a tolerance t1, it returns with any
\* tolerance t2 >= t1, and every entry of the first list whose centres are at
\* least t2 apart is an entry of the second list
C9_FarPairsAreKept ==
    (Rematched /\ prev.matched.kind = "return") =>
        /\ matched.kind = "return"
        /\ \A k \in 1..Len(prev.matched.value) :
               CentreDistSq(prev.matched.value[k])
                       >= (the_tolerance * Scale) * (the_tolerance * Scale)
                   => \E m \in 1..Len(matched.value) : matched.value[m] = prev.matched.value[k]

\* A pair found with a smaller tolerance, its centres exactly the larger
\* tolerance apart, is found again with the larger one
C9_PairKeptAtTheBoundary ==
    /\ Rematched /\ prev.matched.kind = "return" /\ matched.kind = "return"
    /\ prev.tolerance < the_tolerance
    /\ \E k \in 1..Len(prev.matched.value) :
           /\ CentreDistSq(prev.matched.value[k]) = (the_tolerance * Scale) * (the_tolerance * Scale)
           /\ \E m \in 1..Len(matched.value) : matched.value[m] = prev.matched.value[k]

\* ---------------------------------------------------- the coincidence test
\* The samples got: every vertex, and the edge points whose evaluation succeeded
Samples ==
    {the_face1.Vertexes[k] : k \in 1..Len(the_face1.Vertexes)}
    \cup {the_face1.Edges[ei[1]].pts[ei[2]].point :
              ei \in {x \in (1..Len(the_face1.Edges)) \X (1..(samples_per_edge - 1)) :
                         the_face1.Edges[x[1]].pts[x[2]].ok}}

\* The samples whose distance query succeeded with a distance below the tolerance
MatchedSamples ==
    {p \in Samples : /\ the_face2.dist[p].ok
                     /\ the_face2.dist[p].d2 < (the_tolerance * Scale) * (the_tolerance * Scale)}

\* |diag(F') - diag(B)| <= tolerance
DiagonalsAgree ==
    Abs(ISqrt(the_face1.DiagonalLengthSq) - ISqrt(the_face2.DiagonalLengthSq))
        <= the_tolerance * Scale

\* C2: check_faces_coincident is true exactly when the diagonals differ by no
\* more than the tolerance, there is a sample, and more than 70% of the samples
\* are matched; exactly 70% is a rejection
C2_TrueIffMoreThanSeventyPercent ==
    pc = "checked" =>
        (coincident.value <=>
            /\ DiagonalsAgree
            /\ Samples # {}
            /\ 10 * Cardinality(MatchedSamples) > 7 * Cardinality(Samples))

====
